---- MODULE Spec2Model ----
(***************************************************************************)
(* The CHIP-8 execution core of src/src/main.rs as a state machine: the    *)
(* CPU struct is the state, one action per arm of the match in CPU::run,   *)
(* and one operator per instruction handler.                               *)
(***************************************************************************)
EXTENDS Integers, Sequences, FiniteSets, TLC

VARIABLES
    registers,        \* CPU.registers: [u8; 16]
    program_counter,  \* CPU.program_counter: usize
    memory,           \* CPU.memory: [u8; 0x1000], as the bytes the driver stored; every other cell holds 0
    stack,            \* CPU.stack: [u16; 16]
    stack_pointer,    \* CPU.stack_pointer: usize
    status,           \* where the run loop is: "Running", "Halted" (run returned), "Faulted" (run panicked)
    fault,            \* the panic that ended the run, NoFault while there is none
    overflow_checks,  \* the build: TRUE when integer overflow panics (debug), FALSE when it wraps (release)
    last,             \* the previous iteration's locals: p, opcode, and stack_pointer at its fetch
    open_calls        \* history: the return addresses of the calls not yet returned from, oldest first

vars == <<registers, program_counter, memory, stack, stack_pointer, status, fault,
          overflow_checks, last, open_calls>>

----------------------------------------------------------------------------
(* Sizes of the CPU struct's arrays and integer types. *)

NumRegisters == 16
MemSize == 4096
StackLen == 16
U8 == 256
U16 == 65536

(* The panics that can end CPU::run. *)
NoFault == "none"
StackUnderflow == "Stack underflow!"
StackOverflow == "Stack overflow!"
IndexOutOfBounds == "index out of bounds"
UnimplementedOpcode == "not yet implemented"
AddOverflow == "attempt to add with overflow"

----------------------------------------------------------------------------
(* Bitwise operators of the integer types, bit by bit. *)

RECURSIVE BitAnd(_, _)
BitAnd(a, b) ==
    IF a = 0 \/ b = 0 THEN 0
    ELSE (IF a % 2 = 1 /\ b % 2 = 1 THEN 1 ELSE 0) + 2 * BitAnd(a \div 2, b \div 2)

RECURSIVE BitOr(_, _)
BitOr(a, b) ==
    IF a = 0 THEN b
    ELSE IF b = 0 THEN a
    ELSE (IF a % 2 = 1 \/ b % 2 = 1 THEN 1 ELSE 0) + 2 * BitOr(a \div 2, b \div 2)

RECURSIVE BitXor(_, _)
BitXor(a, b) ==
    IF a = 0 THEN b
    ELSE IF b = 0 THEN a
    ELSE (IF a % 2 # b % 2 THEN 1 ELSE 0) + 2 * BitXor(a \div 2, b \div 2)

RECURSIVE Pow2(_)
Pow2(n) == IF n = 0 THEN 1 ELSE 2 * Pow2(n - 1)

ShiftLeft16(a, n) == (a * Pow2(n)) % U16
ShiftRight(a, n) == a \div Pow2(n)

(* u8::overflowing_add: the wrapped sum and whether it overflowed. *)
overflowing_add(a, b) == <<(a + b) % U8, a + b >= U8>>

----------------------------------------------------------------------------
(* Fetch and decode: the head of the loop in CPU::run. *)

(* A bounds check of memory[p] alone, as a faulty variant. *)
FetchInBounds_first_byte_only == program_counter < MemSize

(* Both index expressions memory[p] and memory[p + 1] are in bounds. *)
FetchInBounds == program_counter + 1 < MemSize

Fetched == status = "Running" /\ FetchInBounds

(* memory[a] for an index a in bounds: the array is created zeroed. *)
ReadMemory(a) == IF a \in DOMAIN memory THEN memory[a] ELSE 0

opcode ==
    BitOr(ShiftLeft16(ReadMemory(program_counter), 8), ReadMemory(program_counter + 1))

DecodeX(op) == ShiftRight(BitAnd(op, \h0F00), 8) % U8
DecodeY(op) == ShiftRight(BitAnd(op, \h00F0), 4) % U8
DecodeKK(op) == BitAnd(op, \h00FF) % U8
DecodeMinor(op) == BitAnd(op, \h000F) % U8
(* addr without its mask, as a faulty variant. *)
DecodeAddr_unmasked(op) == op

DecodeAddr(op) == BitAnd(op, \h0FFF)

(* program_counter after `self.program_counter += 2`. *)
Advanced == program_counter + 2

(* The handler returned and the loop goes on. *)
Continue == UNCHANGED <<status, fault>>

(* A fault that restores the program counter of the fetch, as a faulty    *)
(* variant.                                                                *)
Panic_rolls_back(msg) ==
    /\ status' = "Faulted"
    /\ fault' = msg
    /\ UNCHANGED <<program_counter, registers, stack, stack_pointer>>

(* A panic inside a handler or a match arm: the run ends with the state as *)
(* it was when the panic was raised, program_counter already advanced.     *)
Panic(msg) ==
    /\ status' = "Faulted"
    /\ fault' = msg
    /\ program_counter' = Advanced
    /\ UNCHANGED <<registers, stack, stack_pointer>>

----------------------------------------------------------------------------
(* The instruction handlers. *)

(* Faulty variants of the handlers below, each the slip its name says;    *)
(* none is part of Next. They show which properties tell them apart.       *)
ret_keeps_stack_pointer ==
    IF stack_pointer = 0
    THEN Panic(StackUnderflow)
    ELSE /\ program_counter' = stack[stack_pointer - 1]
         /\ UNCHANGED <<registers, stack, stack_pointer>>
         /\ Continue

ret_ignores_empty_stack ==
    IF stack_pointer = 0
    THEN /\ program_counter' = Advanced
         /\ UNCHANGED <<registers, stack, stack_pointer>>
         /\ Continue
    ELSE /\ stack_pointer' = stack_pointer - 1
         /\ program_counter' = stack[stack_pointer - 1]
         /\ UNCHANGED <<registers, stack>>
         /\ Continue

(* ret zeroing the slot it pops. *)
ret_clears_slot ==
    IF stack_pointer = 0
    THEN Panic(StackUnderflow)
    ELSE /\ stack_pointer' = stack_pointer - 1
         /\ program_counter' = stack[stack_pointer - 1]
         /\ stack' = [stack EXCEPT ![stack_pointer - 1] = 0]
         /\ UNCHANGED registers
         /\ Continue

(* ret taking the oldest return address instead of the newest. *)
ret_reads_oldest ==
    IF stack_pointer = 0
    THEN Panic(StackUnderflow)
    ELSE /\ stack_pointer' = stack_pointer - 1
         /\ program_counter' = stack[0]
         /\ UNCHANGED <<registers, stack>>
         /\ Continue

ret ==
    IF stack_pointer = 0
    THEN Panic(StackUnderflow)
    ELSE /\ stack_pointer' = stack_pointer - 1
         /\ program_counter' = stack[stack_pointer - 1]
         /\ UNCHANGED <<registers, stack>>
         /\ Continue

(* jump that leaves the advanced program counter alone. *)
jump_ignored(addr) ==
    /\ program_counter' = Advanced
    /\ UNCHANGED <<registers, stack, stack_pointer>>
    /\ Continue

jump(addr) ==
    /\ program_counter' = addr
    /\ UNCHANGED <<registers, stack, stack_pointer>>
    /\ Continue

(* call storing the address the Call was fetched at, not the advanced one. *)
call_pushes_fetch_address(addr) ==
    IF stack_pointer >= StackLen
    THEN Panic(IndexOutOfBounds)
    ELSE /\ stack' = [stack EXCEPT ![stack_pointer] = program_counter % U16]
         /\ stack_pointer' = stack_pointer + 1
         /\ program_counter' = addr
         /\ UNCHANGED registers
         /\ Continue

(* call on an array without bounds checks: a full stack is not noticed. *)
call_unchecked(addr) ==
    /\ stack' = IF stack_pointer \in DOMAIN stack
                THEN [stack EXCEPT ![stack_pointer] = Advanced % U16]
                ELSE stack
    /\ stack_pointer' = stack_pointer + 1
    /\ program_counter' = addr
    /\ UNCHANGED registers
    /\ Continue

call(addr) ==
    IF stack_pointer > StackLen
    THEN Panic(StackOverflow)
    ELSE IF stack_pointer >= StackLen
    THEN Panic(IndexOutOfBounds)
    ELSE /\ stack' = [stack EXCEPT ![stack_pointer] = Advanced % U16]
         /\ stack_pointer' = stack_pointer + 1
         /\ program_counter' = addr
         /\ UNCHANGED registers
         /\ Continue

se_xkk(x, kk) ==
    /\ program_counter' = IF registers[x] = kk THEN Advanced + 2 ELSE Advanced
    /\ UNCHANGED <<registers, stack, stack_pointer>>
    /\ Continue

(* sne with the comparison of se_xkk. *)
sne_skips_on_equal(vx, kk) ==
    /\ program_counter' = IF vx = kk THEN Advanced + 2 ELSE Advanced
    /\ UNCHANGED <<registers, stack, stack_pointer>>
    /\ Continue

sne(vx, kk) ==
    /\ program_counter' = IF vx # kk THEN Advanced + 2 ELSE Advanced
    /\ UNCHANGED <<registers, stack, stack_pointer>>
    /\ Continue

se_xy(x, y) ==
    /\ program_counter' = IF registers[x] = registers[y] THEN Advanced + 2 ELSE Advanced
    /\ UNCHANGED <<registers, stack, stack_pointer>>
    /\ Continue

set(x, kk) ==
    /\ registers' = [registers EXCEPT ![x] = kk]
    /\ program_counter' = Advanced
    /\ UNCHANGED <<stack, stack_pointer>>
    /\ Continue

(* add written like add_xy: the carry goes to registers[0xF]. *)
add_sets_carry(vx, kk) ==
    LET r == overflowing_add(registers[vx], kk)
        written == [registers EXCEPT ![vx] = r[1]]
    IN  /\ registers' = [written EXCEPT ![15] = IF r[2] THEN 1 ELSE 0]
        /\ program_counter' = Advanced
        /\ UNCHANGED <<stack, stack_pointer>>
        /\ Continue

(* `self.registers[vx] += kk` on u8: panics on overflow when the build     *)
(* checks overflow, wraps otherwise.                                       *)
add(vx, kk) ==
    IF overflow_checks /\ registers[vx] + kk >= U8
    THEN Panic(AddOverflow)
    ELSE /\ registers' = [registers EXCEPT ![vx] = (registers[vx] + kk) % U8]
         /\ program_counter' = Advanced
         /\ UNCHANGED <<stack, stack_pointer>>
         /\ Continue

and_xy(x, y) ==
    /\ registers' = [registers EXCEPT ![x] = BitAnd(registers[x], registers[y])]
    /\ program_counter' = Advanced
    /\ UNCHANGED <<stack, stack_pointer>>
    /\ Continue

or_xy(x, y) ==
    /\ registers' = [registers EXCEPT ![x] = BitOr(registers[x], registers[y])]
    /\ program_counter' = Advanced
    /\ UNCHANGED <<stack, stack_pointer>>
    /\ Continue

(* xor_xy with the operator of or_xy. *)
xor_xy_as_or(x, y) ==
    /\ registers' = [registers EXCEPT ![x] = BitOr(registers[x], registers[y])]
    /\ program_counter' = Advanced
    /\ UNCHANGED <<stack, stack_pointer>>
    /\ Continue

xor_xy(x, y) ==
    /\ registers' = [registers EXCEPT ![x] = BitXor(registers[x], registers[y])]
    /\ program_counter' = Advanced
    /\ UNCHANGED <<stack, stack_pointer>>
    /\ Continue

(* add_xy without the else branch: the flag is set and never cleared. *)
add_xy_never_clears_flag(x, y) ==
    LET r == overflowing_add(registers[x], registers[y])
        written == [registers EXCEPT ![x] = r[1]]
    IN  /\ registers' = (IF r[2] THEN [written EXCEPT ![15] = 1] ELSE written)
        /\ program_counter' = Advanced
        /\ UNCHANGED <<stack, stack_pointer>>
        /\ Continue

(* add_xy with the two writes in the other order. *)
add_xy_flag_first(x, y) ==
    LET r == overflowing_add(registers[x], registers[y])
        flagged == [registers EXCEPT ![15] = IF r[2] THEN 1 ELSE 0]
    IN  /\ registers' = [flagged EXCEPT ![x] = r[1]]
        /\ program_counter' = Advanced
        /\ UNCHANGED <<stack, stack_pointer>>
        /\ Continue

(* registers[x] is written first, registers[0xF] second. *)
add_xy(x, y) ==
    LET r == overflowing_add(registers[x], registers[y])
        written == [registers EXCEPT ![x] = r[1]]
    IN  /\ registers' = [written EXCEPT ![15] = IF r[2] THEN 1 ELSE 0]
        /\ program_counter' = Advanced
        /\ UNCHANGED <<stack, stack_pointer>>
        /\ Continue

----------------------------------------------------------------------------
(* The run loop: one action per arm of `match opcode`. *)

(* What every dispatched iteration leaves alone, the locals it had, and    *)
(* the history of calls: a Call that returned to the loop opens one, a     *)
(* Return that returned to the loop closes the newest.                     *)
Dispatched ==
    /\ last' = [p |-> program_counter, opcode |-> opcode, sp |-> stack_pointer]
    /\ open_calls' =
          IF status' # "Running" THEN open_calls
          ELSE IF opcode \in \h2000..\h2FFF THEN Append(open_calls, program_counter + 2)
          ELSE IF opcode = \h00EE THEN SubSeq(open_calls, 1, Len(open_calls) - 1)
          ELSE open_calls
    /\ UNCHANGED <<memory, overflow_checks>>

(* memory[p] or memory[p + 1] is out of bounds: the panic comes before the *)
(* program counter is advanced.                                            *)
FetchOutOfBounds ==
    /\ status = "Running"
    /\ ~FetchInBounds
    /\ status' = "Faulted"
    /\ fault' = IndexOutOfBounds
    /\ UNCHANGED <<registers, program_counter, memory, stack, stack_pointer,
                   overflow_checks, last, open_calls>>

Halt ==
    /\ Fetched
    /\ opcode = \h0000
    /\ status' = "Halted"
    /\ program_counter' = Advanced
    /\ UNCHANGED <<registers, stack, stack_pointer, fault>>
    /\ Dispatched

(* 0x00E0 implemented as a wipe of memory, as a faulty variant. *)
ClearScreen_clears_memory ==
    /\ Fetched
    /\ opcode = \h00E0
    /\ program_counter' = Advanced
    /\ memory' = [a \in DOMAIN memory |-> 0]
    /\ last' = [p |-> program_counter, opcode |-> opcode, sp |-> stack_pointer]
    /\ UNCHANGED <<registers, stack, stack_pointer, overflow_checks, open_calls>>
    /\ Continue

ClearScreen ==
    /\ Fetched
    /\ opcode = \h00E0
    /\ program_counter' = Advanced
    /\ UNCHANGED <<registers, stack, stack_pointer>>
    /\ Continue
    /\ Dispatched

Return ==
    /\ Fetched
    /\ opcode = \h00EE
    /\ ret
    /\ Dispatched

Jump ==
    /\ Fetched
    /\ opcode \in \h1000..\h1FFF
    /\ jump(DecodeAddr(opcode))
    /\ Dispatched

Call ==
    /\ Fetched
    /\ opcode \in \h2000..\h2FFF
    /\ call(DecodeAddr(opcode))
    /\ Dispatched

SkipEqualImmediate ==
    /\ Fetched
    /\ opcode \in \h3000..\h3FFF
    /\ se_xkk(DecodeX(opcode), DecodeKK(opcode))
    /\ Dispatched

SkipNotEqualImmediate ==
    /\ Fetched
    /\ opcode \in \h4000..\h4FFF
    /\ sne(registers[DecodeX(opcode)], DecodeKK(opcode))
    /\ Dispatched

SkipEqualRegisters ==
    /\ Fetched
    /\ opcode \in \h5000..\h5FFF
    /\ se_xy(DecodeX(opcode), DecodeY(opcode))
    /\ Dispatched

LoadImmediate ==
    /\ Fetched
    /\ opcode \in \h6000..\h6FFF
    /\ set(DecodeX(opcode), DecodeKK(opcode))
    /\ Dispatched

AddImmediate ==
    /\ Fetched
    /\ opcode \in \h7000..\h7FFF
    /\ add(DecodeX(opcode), DecodeKK(opcode))
    /\ Dispatched

Move ==
    /\ Fetched
    /\ opcode \in \h8000..\h8FFF
    /\ DecodeMinor(opcode) = 0
    /\ set(DecodeX(opcode), registers[DecodeY(opcode)])
    /\ Dispatched

Or ==
    /\ Fetched
    /\ opcode \in \h8000..\h8FFF
    /\ DecodeMinor(opcode) = 1
    /\ or_xy(DecodeX(opcode), DecodeY(opcode))
    /\ Dispatched

And ==
    /\ Fetched
    /\ opcode \in \h8000..\h8FFF
    /\ DecodeMinor(opcode) = 2
    /\ and_xy(DecodeX(opcode), DecodeY(opcode))
    /\ Dispatched

Xor ==
    /\ Fetched
    /\ opcode \in \h8000..\h8FFF
    /\ DecodeMinor(opcode) = 3
    /\ xor_xy(DecodeX(opcode), DecodeY(opcode))
    /\ Dispatched

AddRegisters ==
    /\ Fetched
    /\ opcode \in \h8000..\h8FFF
    /\ DecodeMinor(opcode) = 4
    /\ add_xy(DecodeX(opcode), DecodeY(opcode))
    /\ Dispatched

(* `_ => todo!(...)` of the inner match on op_minor. *)
UnimplementedMinor ==
    /\ Fetched
    /\ opcode \in \h8000..\h8FFF
    /\ DecodeMinor(opcode) \notin 0..4
    /\ Panic(UnimplementedOpcode)
    /\ Dispatched

(* The outer `_` arm as an empty arm, like 0x00E0. *)
Unimplemented_as_noop ==
    /\ Fetched
    /\ opcode \notin {\h0000, \h00E0, \h00EE}
    /\ opcode \notin \h1000..\h8FFF
    /\ program_counter' = Advanced
    /\ UNCHANGED <<registers, stack, stack_pointer>>
    /\ Continue
    /\ Dispatched

(* `_ => todo!(...)` of the outer match: no earlier arm matched. *)
Unimplemented ==
    /\ Fetched
    /\ opcode \notin {\h0000, \h00E0, \h00EE}
    /\ opcode \notin \h1000..\h8FFF
    /\ Panic(UnimplementedOpcode)
    /\ Dispatched

Next ==
    \/ FetchOutOfBounds
    \/ Halt
    \/ ClearScreen
    \/ Return
    \/ Jump
    \/ Call
    \/ SkipEqualImmediate
    \/ SkipNotEqualImmediate
    \/ SkipEqualRegisters
    \/ LoadImmediate
    \/ AddImmediate
    \/ Move
    \/ Or
    \/ And
    \/ Xor
    \/ AddRegisters
    \/ UnimplementedMinor
    \/ Unimplemented

----------------------------------------------------------------------------
(* The driver: construction of the CPU and the program image.              *)

(* Bounds of the inputs the driver is given here. *)
SeedSpan == 1

(* The values registers are seeded with: the SeedSpan + 1 smallest bytes   *)
(* and the SeedSpan largest.                                               *)
SeedBytes == (0..SeedSpan) \cup ((U8 - SeedSpan)..(U8 - 1))

(* The registers instructions of the test images name. *)
SeedRegs == {0, 1, 15}

ZeroRegisters == [i \in 0..(NumRegisters - 1) |-> 0]
ZeroStack == [i \in 0..(StackLen - 1) |-> 0]

(* Memory zeroed, then the bytes of `bs` stored at their addresses. *)
LoadBytes(bs) == bs

(* Memory zeroed, then the words of `ws` stored big-endian. *)
LoadWords(ws) ==
    [a \in DOMAIN ws \cup {w + 1 : w \in DOMAIN ws} |->
        IF a \in DOMAIN ws THEN ws[a] \div U8 ELSE ws[a - 1] % U8]

(* main: registers[0] = 5, registers[1] = 10 and the twelve bytes stored.  *)
MainRegisters == [ZeroRegisters EXCEPT ![0] = 5, ![1] = 10]

MainImage ==
    LoadBytes(
        (\h000 :> \h21) @@ (\h001 :> \h00) @@ (\h002 :> \h21) @@ (\h003 :> \h00) @@
        (\h004 :> \h00) @@ (\h005 :> \h00) @@
        (\h100 :> \h80) @@ (\h101 :> \h14) @@ (\h102 :> \h80) @@ (\h103 :> \h14) @@
        (\h104 :> \h00) @@ (\h105 :> \hEE))

(* Other program images: one instruction under test at 0x000, followed by  *)
(* Call(0x100) at 0x002 and Halt at 0x004; Return at 0x100; a skip in the  *)
(* last instruction slot, 0xFFE.                                           *)
Addrs == {\h000, \h002, \h100, \hFFE, \hFFF}

OpcodeSample ==
    {\h0000, \h00E0, \h00EE, \h00FF, \h0001, \h0100, \h0FFF}
    \cup {h * \h1000 + a : h \in {1, 2}, a \in Addrs}
    \cup {h * \h1000 + x * \h100 + kk : h \in {3, 4, 6, 7}, x \in SeedRegs, kk \in SeedBytes}
    \cup {\h5000 + x * \h100 + y * \h10 : x \in SeedRegs, y \in SeedRegs}
    \cup {\h5000 + y * \h10 + n : y \in {0, 1}, n \in {1, 15}}
    \cup {\h8000 + x * \h100 + y * \h10 + n : x \in SeedRegs, y \in SeedRegs, n \in 0..4}
    \cup {\h8010 + n : n \in 5..15}
    \cup {h * \h1000 + e : h \in 9..15, e \in {\h000, \hFFF}}

TestImage(w) ==
    LoadWords((\h000 :> w) @@ (\h002 :> \h2100) @@ (\h100 :> \h00EE) @@ (\hFFE :> \h3000))

SeededRegisters ==
    {[i \in 0..(NumRegisters - 1) |-> IF i \in SeedRegs THEN s[i] ELSE 0] :
        s \in [SeedRegs -> SeedBytes]}

TestImages == {TestImage(w) : w \in OpcodeSample}

(* The fields main leaves zeroed, run about to be called, in either build. *)
Constructed ==
    /\ program_counter = 0
    /\ stack = ZeroStack
    /\ stack_pointer = 0
    /\ status = "Running"
    /\ fault = NoFault
    /\ overflow_checks \in BOOLEAN
    /\ last = [p |-> 0, opcode |-> -1, sp |-> 0]
    /\ open_calls = <<>>

(* Images of nested subroutines, n deep: Call(0x020) at 0x000 and Halt at  *)
(* 0x002; the k-th subroutine, at 0x020 * k, calls the next and returns;   *)
(* the n-th only returns. Every call site is at another address.           *)
ChainImage(n) ==
    LoadWords(
        [a \in {\h020 * k : k \in 0..(n - 1)} |-> \h2000 + a + \h020]
        @@ [a \in {\h020 * k + 2 : k \in 1..(n - 1)} |-> \h00EE]
        @@ (\h020 * n :> \h00EE))

ChainImages == {ChainImage(n) : n \in 1..StackLen}

Init ==
    /\ \/ /\ memory = MainImage
          /\ registers = MainRegisters
       \/ /\ memory \in TestImages
          /\ registers \in SeededRegisters
       \/ /\ memory \in ChainImages
          /\ registers = ZeroRegisters
    /\ Constructed

Spec == Init /\ [][Next]_vars

(* The runs with the registers main seeds, over main's image and the test  *)
(* images. The loop is sequential code: while it is Running it takes its   *)
(* next step, which is the fairness stated.                                *)
LiveInit ==
    /\ memory \in {MainImage} \cup TestImages
    /\ registers = MainRegisters
    /\ Constructed

LiveSpec == LiveInit /\ [][Next]_vars /\ WF_vars(Next)

----------------------------------------------------------------------------
(* Reading the properties below: the instruction word at program_counter   *)
(* and its fields, by arithmetic on the two bytes.                         *)

Word == ReadMemory(program_counter) * 256 + ReadMemory(program_counter + 1)
FieldX(w) == (w \div 256) % 16
FieldY(w) == (w \div 16) % 16
FieldKK(w) == w % 256
FieldN(w) == w % 16
FieldAddr(w) == w % 4096
Family(w) == w \div 4096

(* The loop is about to fetch, in bounds, an instruction word of set S. *)
AboutToRun(S) ==
    /\ status = "Running"
    /\ program_counter + 1 <= 4095
    /\ Word \in S

(* The loop has just run, without faulting, an instruction word of set S. *)
JustRan(S) ==
    /\ status = "Running"
    /\ last.opcode \in S

AddRegistersWords == {w \in \h8000..\h8FFF : FieldN(w) = 4}
AddImmediateWords == \h7000..\h7FFF
CallWords == \h2000..\h2FFF
ReturnWords == {\h00EE}

----------------------------------------------------------------------------
(* C1: the image and registers main sets up run to Halted, never Faulted,  *)
(* and Halted has registers[0] = 45 and stack_pointer = 0.                 *)
C1_MainRunsToHalt ==
    /\ [](memory = MainImage => status # "Faulted")
    /\ [](memory = MainImage /\ status = "Halted"
            => registers[0] = 45 /\ stack_pointer = 0)
    /\ (memory = MainImage) ~> (memory = MainImage /\ status = "Halted")

C1_Witness ==
    /\ memory = MainImage
    /\ status = "Halted"
    /\ registers[0] = 45
    /\ last.p = 4

(* C2 as stated: AddRegisters(x,y) leaves (a+b) mod 256 in registers[x]    *)
(* and the carry in registers[0xF], for all x and y.                       *)
C2_Original ==
    [][AboutToRun(AddRegistersWords) =>
        LET a == registers[FieldX(Word)]
            b == registers[FieldY(Word)]
        IN  /\ registers'[FieldX(Word)] = (a + b) % 256
            /\ registers'[15] = (IF a + b > 255 THEN 1 ELSE 0)]_vars

(* C2 amended: AddRegisters(x,y) leaves the carry in registers[0xF] for    *)
(* all x and y, and (a+b) mod 256 in registers[x] when x is not 0xF.       *)
C2_AddRegistersSumAndCarry ==
    [][AboutToRun(AddRegistersWords) =>
        LET a == registers[FieldX(Word)]
            b == registers[FieldY(Word)]
        IN  /\ FieldX(Word) # 15 => registers'[FieldX(Word)] = (a + b) % 256
            /\ registers'[15] = (IF a + b > 255 THEN 1 ELSE 0)]_vars

(* An AddRegisters(0,1) that overflowed: 255 + 255 = 254 carry 1. *)
C2_Witness ==
    /\ JustRan({\h8014})
    /\ registers[0] = 254
    /\ registers[1] = 255
    /\ registers[15] = 1

(* C3: AddImmediate(x,kk) leaves (registers[x] + kk) mod 256 in            *)
(* registers[x] and the run stays Running.                                 *)
C3_AddImmediateWraps ==
    [][AboutToRun(AddImmediateWords) =>
        /\ registers'[FieldX(Word)] = (registers[FieldX(Word)] + FieldKK(Word)) % 256
        /\ status' = "Running"]_vars

(* C4 as stated: AddImmediate(x,kk) leaves registers[0xF] as it was, for   *)
(* every x.                                                                *)
C4_Original ==
    [][AboutToRun(AddImmediateWords) => registers'[15] = registers[15]]_vars

(* C4 amended: AddImmediate(x,kk) with x other than 0xF leaves             *)
(* registers[0xF] as it was.                                               *)
C4_AddImmediateKeepsVF ==
    [][AboutToRun(AddImmediateWords) /\ FieldX(Word) # 15
        => registers'[15] = registers[15]]_vars

(* An AddImmediate(0, 1) that wrapped registers[0] from 255 to 0 and left  *)
(* a set flag register alone.                                              *)
C4_Witness ==
    /\ JustRan({\h7001})
    /\ registers[0] = 0
    /\ registers[15] = 255

(* C5: Call with stack_pointer = 16 ends the run Faulted with the stack    *)
(* overflow panic, stack and stack_pointer as they were.                   *)
C5_CallOverflow ==
    [][AboutToRun(CallWords) /\ stack_pointer = 16 =>
        /\ status' = "Faulted"
        /\ fault' = StackOverflow
        /\ stack' = stack
        /\ stack_pointer' = 16]_vars

(* C6: Return with stack_pointer = 0 ends the run Faulted with the stack   *)
(* underflow panic, stack_pointer still 0, program_counter the advanced    *)
(* one and not a stack slot.                                               *)
C6_ReturnUnderflow ==
    [][AboutToRun(ReturnWords) /\ stack_pointer = 0 =>
        /\ status' = "Faulted"
        /\ fault' = StackUnderflow
        /\ stack_pointer' = 0
        /\ stack' = stack
        /\ program_counter' = program_counter + 2]_vars

C6_Witness ==
    /\ status = "Faulted"
    /\ fault = StackUnderflow
    /\ last.opcode = \h00EE
    /\ last.sp = 0
    /\ stack_pointer = 0

(* C7: a Return run right after a Call(addr) fetched at p with             *)
(* stack_pointer < 16 leaves program_counter = p + 2 and stack_pointer as  *)
(* it was before the Call.                                                 *)
C7_CallReturnRoundTrip ==
    [][(/\ JustRan(CallWords)
        /\ last.sp < 16
        /\ program_counter = FieldAddr(last.opcode)
        /\ AboutToRun(ReturnWords)) =>
            /\ program_counter' = last.p + 2
            /\ stack_pointer' = last.sp
            /\ status' = "Running"]_vars

(* A Return fetched at the target of the Call that precedes the            *)
(* instruction now at program_counter has just brought the loop back.      *)
C7_Witness ==
    /\ JustRan(ReturnWords)
    /\ program_counter = 4
    /\ ReadMemory(2) * 256 + ReadMemory(3) = \h2000 + last.p
    /\ stack_pointer = last.sp - 1
    /\ stack[stack_pointer] = program_counter

(* C8: a skip fetched at p leaves program_counter = p + 4 when its         *)
(* condition holds and p + 2 otherwise; registers, stack and stack_pointer *)
(* are unchanged.                                                          *)
SkipWords == (\h3000..\h4FFF) \cup {w \in \h5000..\h5FFF : FieldN(w) = 0}

SkipCondition(w) ==
    CASE Family(w) = 3 -> registers[FieldX(w)] = FieldKK(w)
      [] Family(w) = 4 -> registers[FieldX(w)] # FieldKK(w)
      [] Family(w) = 5 -> registers[FieldX(w)] = registers[FieldY(w)]

C8_SkipAdvance ==
    [][AboutToRun(SkipWords) =>
        /\ program_counter' = program_counter + (IF SkipCondition(Word) THEN 4 ELSE 2)
        /\ registers' = registers
        /\ stack' = stack
        /\ stack_pointer' = stack_pointer
        /\ status' = "Running"]_vars

(* A SkipNotEqualImmediate(1, 255) that skipped. *)
C8_Witness ==
    /\ JustRan({\h41FF})
    /\ registers[1] = 1
    /\ program_counter = last.p + 4

(* C9: an opcode 0x0nnn other than 0x0000, 0x00E0, 0x00EE, an opcode       *)
(* 0x8xyN with N in 5..0xF, or an opcode in 0x9000..0xFFFF ends the run    *)
(* Faulted with the unimplemented-opcode panic, registers unchanged.       *)
UnrecognizedWords ==
    ((\h0000..\h0FFF) \ {\h0000, \h00E0, \h00EE})
    \cup {w \in \h8000..\h8FFF : FieldN(w) \in 5..15}
    \cup (\h9000..\hFFFF)

C9_UnrecognizedFaults ==
    [][AboutToRun(UnrecognizedWords) =>
        /\ status' = "Faulted"
        /\ fault' = UnimplementedOpcode
        /\ registers' = registers]_vars

C9_Witness ==
    /\ status = "Faulted"
    /\ fault = UnimplementedOpcode
    /\ last.opcode = \hD000
    /\ registers[15] = 255

(* C10: an opcode 0x5xyN with N other than 0 ends the run Faulted with the *)
(* unimplemented-opcode panic.                                             *)
C10_SkipEqualRegistersExactForm ==
    [][AboutToRun({w \in \h5000..\h5FFF : FieldN(w) # 0}) =>
        /\ status' = "Faulted"
        /\ fault' = UnimplementedOpcode]_vars

(* C11: a fetch begun with program_counter >= 4095 ends the run Faulted    *)
(* with the index panic; no instruction is dispatched and program_counter, *)
(* registers, stack and stack_pointer are unchanged.                       *)
C11_FetchOutOfBounds ==
    [][status = "Running" /\ program_counter >= 4095 =>
        /\ status' = "Faulted"
        /\ fault' = IndexOutOfBounds
        /\ last' = last
        /\ program_counter' = program_counter
        /\ registers' = registers
        /\ stack' = stack
        /\ stack_pointer' = stack_pointer]_vars

(* The fetch after Jump(0xFFF) has faulted. *)
C11_Witness ==
    /\ status = "Faulted"
    /\ fault = IndexOutOfBounds
    /\ program_counter = 4095
    /\ last.opcode = \h1FFF

(* C12: 0 <= stack_pointer <= 16 in every reachable state. *)
C12_StackPointerRange == stack_pointer \in 0..16

(* Sixteen calls are open and a seventeenth was refused. *)
C12_Witness ==
    /\ stack_pointer = 16
    /\ status = "Faulted"
    /\ last.opcode \in CallWords

(* C13 as stated: whenever the loop is about to fetch, program_counter is  *)
(* in 0..4094.                                                             *)
C13_Original == status = "Running" => program_counter \in 0..4094

(* C13 amended: program_counter is in 0..4094 before each fetch that       *)
(* dispatches an instruction; the loop can come to a fetch with a          *)
(* program_counter of up to 4098, and that fetch faults.                   *)
C13_ProgramCounterRange ==
    /\ [](program_counter \in 0..4098)
    /\ [][last' # last => program_counter \in 0..4094]_vars
    /\ [][status = "Running" /\ program_counter \notin 0..4094
            => status' = "Faulted" /\ last' = last]_vars

(* The skip in the last instruction slot was dispatched and skipped past   *)
(* the end of memory.                                                      *)
C13_Witness ==
    /\ JustRan({\h3000})
    /\ last.p = 4094
    /\ program_counter = 4098

(* C14: AddRegisters(x,y) leaves in registers[0xF] the carry, 0 or 1, of   *)
(* the operands' sum, whichever registers x and y are; with x = 0xF the    *)
(* register holds the carry and not the sum.                               *)
C14_FlagIsCarry ==
    [][AboutToRun(AddRegistersWords) =>
        LET sum == registers[FieldX(Word)] + registers[FieldY(Word)]
        IN  /\ registers'[15] \in {0, 1}
            /\ registers'[15] = 1 <=> sum > 255
            /\ (FieldX(Word) = 15 /\ sum % 256 > 1) => registers'[15] # sum % 256]_vars

(* AddRegisters(0xF, 1) with registers[1] = 255 overflowed: the flag       *)
(* register holds 1, and the sum would have been 0 or 254.                 *)
C14_Witness ==
    /\ JustRan({\h8F14})
    /\ registers[1] = 255
    /\ registers[15] = 1

(* C15: the image with Jump(0x000) at 0x000 never leaves Running, and      *)
(* while Running the loop always has a next iteration to take.             *)
LoopImage == TestImage(\h1000)

C15_LoopNeverEnds ==
    memory = LoopImage => (status = "Running" /\ ENABLED Jump)

(* The jump has been taken and the loop is back at 0x000. *)
C15_Witness ==
    /\ memory = LoopImage
    /\ JustRan({\h1000})
    /\ program_counter = 0

(* C16: when an instruction fetched at p ends the run with the            *)
(* unimplemented-opcode or stack-underflow panic, the Faulted state has    *)
(* program_counter = p + 2 and registers, stack and stack_pointer as they  *)
(* were before the fetch.                                                  *)
C16_FaultKeepsAdvance ==
    [][(/\ status = "Running"
        /\ status' = "Faulted"
        /\ fault' \in {UnimplementedOpcode, StackUnderflow}) =>
            /\ program_counter' = program_counter + 2
            /\ registers' = registers
            /\ stack' = stack
            /\ stack_pointer' = stack_pointer]_vars

(* The Return at 0x100, reached by a Jump with no call open, has faulted. *)
C16_Witness ==
    /\ status = "Faulted"
    /\ fault = StackUnderflow
    /\ last.p = \h100
    /\ program_counter = \h102

(* C17: LoadImmediate, Move, Or, And and Xor fetched at p write kk,        *)
(* registers[y], and the bitwise or, and, xor of registers[x] and          *)
(* registers[y] to registers[x], change no other register, leave stack     *)
(* and stack_pointer alone, and leave program_counter = p + 2.             *)
Bit(v, i) == (v \div (2 ^ i)) % 2

Bitwise(F(_, _), a, b) ==
    LET t[i \in 0..8] ==
            IF i = 8 THEN 0 ELSE F(Bit(a, i), Bit(b, i)) * (2 ^ i) + t[i + 1]
    IN  t[0]

OrBit(u, v) == IF u + v > 0 THEN 1 ELSE 0
AndBit(u, v) == u * v
XorBit(u, v) == (u + v) % 2

AluWords == (\h6000..\h6FFF) \cup {w \in \h8000..\h8FFF : FieldN(w) \in 0..3}

AluResult(w) ==
    LET vx == registers[FieldX(w)]
        vy == registers[FieldY(w)]
    IN  CASE Family(w) = 6 -> FieldKK(w)
          [] Family(w) = 8 /\ FieldN(w) = 0 -> vy
          [] Family(w) = 8 /\ FieldN(w) = 1 -> Bitwise(OrBit, vx, vy)
          [] Family(w) = 8 /\ FieldN(w) = 2 -> Bitwise(AndBit, vx, vy)
          [] Family(w) = 8 /\ FieldN(w) = 3 -> Bitwise(XorBit, vx, vy)

C17_AluEffects ==
    [][AboutToRun(AluWords) =>
        /\ registers' = [registers EXCEPT ![FieldX(Word)] = AluResult(Word)]
        /\ stack' = stack
        /\ stack_pointer' = stack_pointer
        /\ program_counter' = program_counter + 2
        /\ status' = "Running"]_vars

(* Xor(0, 1) has turned registers[0] = 1 into 254 with registers[1] = 255, *)
(* the flag register keeping its 255.                                      *)
C17_Witness ==
    /\ JustRan({\h8013})
    /\ registers[0] = 254
    /\ registers[1] = 255
    /\ registers[15] = 255
    /\ program_counter = last.p + 2

(* C18: only Call and Return touch the stack. Every other step leaves      *)
(* stack and stack_pointer alone; a Call with stack_pointer < 16 writes    *)
(* the advanced program_counter to stack[stack_pointer], no other slot,    *)
(* and adds 1 to stack_pointer; a Return with stack_pointer > 0 takes 1    *)
(* from stack_pointer and writes no slot.                                  *)
C18_StackFrame ==
    [][/\ ~AboutToRun(CallWords \cup ReturnWords) =>
            stack' = stack /\ stack_pointer' = stack_pointer
       /\ AboutToRun(CallWords) /\ stack_pointer < 16 =>
            /\ stack' = [stack EXCEPT ![stack_pointer] = program_counter + 2]
            /\ stack_pointer' = stack_pointer + 1
       /\ AboutToRun(ReturnWords) /\ stack_pointer > 0 =>
            /\ stack' = stack
            /\ stack_pointer' = stack_pointer - 1]_vars

(* A second, nested Call, fetched at 0x002, has written the second slot. *)
C18_Witness ==
    /\ JustRan(CallWords)
    /\ last.p = 2
    /\ last.sp = 1
    /\ stack_pointer = 2
    /\ stack[0] = 2
    /\ stack[1] = 4

(* C19: stack[0..stack_pointer) holds the return addresses of the open     *)
(* calls in call order at every point, each Return goes to the return      *)
(* address of the newest open call and closes it, and the images of n      *)
(* nested calls, n in 1..16, halt with stack_pointer = 0.                  *)
C19_NestedCallsLifo ==
    /\ [](/\ stack_pointer = Len(open_calls)
          /\ \A i \in 1..Len(open_calls) : stack[i - 1] = open_calls[i])
    /\ [][AboutToRun(ReturnWords) /\ open_calls # <<>> =>
            /\ program_counter' = open_calls[Len(open_calls)]
            /\ open_calls' = SubSeq(open_calls, 1, Len(open_calls) - 1)
            /\ stack_pointer' = stack_pointer - 1]_vars
    /\ [](memory \in ChainImages /\ status # "Running"
            => status = "Halted" /\ stack_pointer = 0 /\ program_counter = 4)

(* Sixteen nested calls, the last fetched at 0x1E0, have all returned and  *)
(* the image has halted.                                                   *)
C19_Witness ==
    /\ memory = ChainImage(16)
    /\ status = "Halted"
    /\ stack_pointer = 0
    /\ stack[15] = \h1E2
    /\ stack[0] = 2

(* C20: no step of the run loop changes memory. *)
C20_MemoryNeverWritten == [][memory' = memory]_vars

(* The self-calling image has run its seventeen iterations to the fault    *)
(* and is still the image loaded.                                          *)
C20_Witness ==
    /\ memory = TestImage(\h2000)
    /\ status = "Faulted"
    /\ Len(open_calls) = 16

====
